---- MODULE Spec2Model ----
(***************************************************************************)
(* Model of conflict_checks.py: the OAuth2 credential table, the token     *)
(* refresh path, the authenticated paginated fetch, the local corpus cache *)
(* and the conflict-check handler, run by concurrent Streamlit sessions    *)
(* that share one SQLite database.                                         *)
(*                                                                         *)
(* Conventions: Python None is modelled as 0 for tokens, datetimes and     *)
(* next_page cursors (tokens, times and page numbers are positive), and as *)
(* the empty sequence for strings and lists.  Every blocking network call  *)
(* is split into the step that sends it and the step that handles its      *)
(* response; a session's pc names the call it is waiting for.              *)
(***************************************************************************)
EXTENDS Integers, Sequences, FiniteSets, TLC

\* ------------------------------------------------------------------ bounds
MaxNow == 2          \* the clock runs over 1..MaxNow
MaxTokens == 2       \* rows the tokens table may hold
MaxRuns == 2          \* script runs, over all sessions
MaxRemotePages == 3  \* pages the remote serves per resource
MaxCorpus == 2       \* contacts, and matters, in a corpus given to the matcher
MaxChecks == 2       \* conflict checks in a row with one query

Sessions == {"s1", "s2"}
None == 0

\* --------------------------------------------------------- string helpers
\* Strings are sequences of one-character strings; str.lower() maps the
\* upper-case letters the fixtures use.
LowerChar(c) ==
  CASE c = "A" -> "a" [] c = "J" -> "j" [] c = "S" -> "s" [] c = "C" -> "c"
    [] c = "B" -> "b" [] c = "E" -> "e" [] c = "H" -> "h" [] c = "L" -> "l"
    [] c = "M" -> "m" [] c = "U" -> "u" [] OTHER -> c

lower(str) == [i \in 1..Len(str) |-> LowerChar(str[i])]

\* Mutant: only the beginning of b is compared.
StrIn_Prefix(a, b) == Len(a) <= Len(b) /\ SubSeq(b, 1, Len(a)) = a

\* Python's `a in b` on strings.
StrIn(a, b) ==
  \E i \in 0..(Len(b) - Len(a)) : SubSeq(b, i + 1, i + Len(a)) = a

\* ------------------------------------------------------ credential table
TIME_FORMAT == "%Y-%m-%d %H:%M:%S.%f"

\* datetime.strftime with the table's format: the text keeps the instant.
strftime(t) == [fmt |-> TIME_FORMAT, text |-> t]

\* datetime.strptime: the instant of a text in the table's format, None on
\* a ValueError.
strptime(s) == IF s.fmt = TIME_FORMAT THEN s.text ELSE None

NoRow == [access_token |-> None, refresh_token |-> None, token_expiry |-> None]

\* Mutant: the oldest row is read (ORDER BY id ASC).
get_token_from_db_First(tbl) ==
  IF tbl = <<>> THEN NoRow
  ELSE [access_token |-> tbl[1].access_token,
        refresh_token |-> tbl[1].refresh_token,
        token_expiry |-> strptime(tbl[1].token_expiry)]

\* SELECT ... FROM tokens ORDER BY id DESC LIMIT 1, expiry parsed.
get_token_from_db(tbl) ==
  IF tbl = <<>> THEN NoRow
  ELSE LET row == tbl[Len(tbl)]
           token_expiry == strptime(row.token_expiry)
       IN IF token_expiry = None THEN NoRow
          ELSE [access_token |-> row.access_token,
                refresh_token |-> row.refresh_token,
                token_expiry |-> token_expiry]

\* INSERT INTO tokens: a new row with the next id.
save_token_to_db(tbl, access_token, refresh_token, token_expiry) ==
  Append(tbl, [access_token |-> access_token,
               refresh_token |-> refresh_token,
               token_expiry |-> strftime(token_expiry)])

\* SELECT refresh_token FROM tokens ORDER BY id DESC LIMIT 1.
get_refresh_token(tbl) ==
  IF tbl = <<>> THEN None ELSE tbl[Len(tbl)].refresh_token

\* Mutant: a token counts as valid at the very instant it expires.
IsExpired_Strict(token_expiry, t) == token_expiry < t

\* The comparison `token_expiry <= datetime.now()`.
IsExpired(token_expiry, t) == token_expiry <= t

\* ------------------------------------------------------- conflict matcher
\* str.lower() of a custom field's name, for the spellings the corpus uses.
LowerName(n) ==
  CASE n = "Maiden Name" -> "maiden name"
    [] n = "Nicknames" -> "nicknames"
    [] n = "Date of Birth" -> "date of birth"
    [] n = "Officers and Directors" -> "officers and directors"
    [] n = "Partners" -> "partners"
    [] n = "Trade Names" -> "trade names"
    [] n = "TRADE NAMES" -> "trade names"
    [] n = "Company" -> "company"
    [] n = "Person" -> "person"
    [] OTHER -> n

\* Mutant: the first custom field is taken, whatever its name.
get_custom_field_value_FirstField(contact, field_name) ==
  IF contact.custom_field_values = <<>> THEN <<>>
  ELSE contact.custom_field_values[1].value

\* The value of the first custom field of that name, <<>> (None) without one.
get_custom_field_value(contact, field_name) ==
  LET fields == contact.custom_field_values
      hits == {i \in 1..Len(fields) :
                 LowerName(fields[i].field_name) = LowerName(field_name)}
  IN IF hits = {} THEN <<>>
     ELSE fields[CHOOSE i \in hits : \A j \in hits : i <= j].value

\* str.split(','): the pieces between the commas, in order.
RECURSIVE split(_)
split(str) ==
  LET commas == {i \in 1..Len(str) : str[i] = ","}
  IN IF commas = {} THEN <<str>>
     ELSE LET k == CHOOSE i \in commas : \A j \in commas : i <= j
          IN <<SubSeq(str, 1, k - 1)>> \o split(SubSeq(str, k + 1, Len(str)))

\* str.strip(): without the leading and trailing blanks.
RECURSIVE strip(_)
strip(str) ==
  IF str = <<>> THEN str
  ELSE IF Head(str) = " " THEN strip(Tail(str))
  ELSE IF str[Len(str)] = " " THEN strip(SubSeq(str, 1, Len(str) - 1))
  ELSE str

Finding(kind, subject, detail) ==
  [kind |-> kind, subject |-> subject, detail |-> detail]

\* The nickname loop: one finding per token contained in the query name.
RECURSIVE NicknameFindings(_, _, _)
NicknameFindings(tokens_, name, contact) ==
  IF tokens_ = <<>> THEN <<>>
  ELSE (IF StrIn(lower(strip(Head(tokens_))), lower(name))
        THEN <<Finding("Nickname match", contact.name, strip(Head(tokens_)))>>
        ELSE <<>>)
       \o NicknameFindings(Tail(tokens_), name, contact)

\* The phone loop: one finding per phone number equal to the query phone.
RECURSIVE PhoneFindings(_, _, _)
PhoneFindings(phones, phone, contact) ==
  IF phones = <<>> THEN <<>>
  ELSE (IF Head(phones).number = phone
        THEN <<Finding("Phone number match", contact.name, <<>>)>>
        ELSE <<>>)
       \o PhoneFindings(Tail(phones), phone, contact)

When(cond, finding) == IF cond THEN <<finding>> ELSE <<>>

\* One iteration of the loop over contacts.
ContactFindings(info, contact) ==
  LET name == lower(info.name)
      maiden_name == get_custom_field_value(contact, "Maiden Name")
      nicknames == get_custom_field_value(contact, "Nicknames")
      dob == get_custom_field_value(contact, "Date of Birth")
      contact_address == lower(contact.address.street)
      new_address == lower(info.address)
      officers == get_custom_field_value(contact, "Officers and Directors")
      partners == get_custom_field_value(contact, "Partners")
      trade_names == get_custom_field_value(contact, "Trade Names")
  IN When(StrIn(name, lower(contact.name)),
          Finding("Name match", contact.name, <<>>))
     \o When(maiden_name # <<>> /\ StrIn(name, lower(maiden_name)),
             Finding("Maiden name match", contact.name, maiden_name))
     \o (IF nicknames # <<>>
         THEN NicknameFindings(split(nicknames), info.name, contact)
         ELSE <<>>)
     \o When(dob # <<>> /\ dob = info.dob,
             Finding("Date of birth match", contact.name, dob))
     \o When(contact_address # <<>> /\ new_address # <<>>
               /\ contact_address = new_address,
             Finding("Address match", contact.name, <<>>))
     \o PhoneFindings(contact.phone_numbers, info.phone, contact)
     \o (IF LowerName(contact.type) = "company"
         THEN When(officers # <<>> /\ StrIn(name, lower(officers)),
                   Finding("Officer/Director match", contact.name, <<>>))
              \o When(partners # <<>> /\ StrIn(name, lower(partners)),
                      Finding("Partner match", contact.name, <<>>))
              \o When(trade_names # <<>> /\ StrIn(name, lower(trade_names)),
                      Finding("Trade name match", contact.name, <<>>))
         ELSE <<>>)

\* One iteration of the loop over matters.
MatterFindings(info, matter) ==
  When(StrIn(lower(info.name), lower(matter.client.name)),
       Finding("Opposing party match in matter", matter.display_number,
               matter.description))

RECURSIVE AllContactFindings(_, _)
AllContactFindings(info, contacts_) ==
  IF contacts_ = <<>> THEN <<>>
  ELSE ContactFindings(info, Head(contacts_))
       \o AllContactFindings(info, Tail(contacts_))

RECURSIVE AllMatterFindings(_, _)
AllMatterFindings(info, matters_) ==
  IF matters_ = <<>> THEN <<>>
  ELSE MatterFindings(info, Head(matters_))
       \o AllMatterFindings(info, Tail(matters_))

\* Mutant: the matters are gone through before the contacts.
perform_advanced_conflict_check_MattersFirst(info, contacts_, matters_) ==
  AllMatterFindings(info, matters_) \o AllContactFindings(info, contacts_)

perform_advanced_conflict_check(info, contacts_, matters_) ==
  AllContactFindings(info, contacts_) \o AllMatterFindings(info, matters_)

\* ------------------------------------------------------- remote fixtures
NoAddress == [street |-> <<>>]

Contact(id, name, type, fields, phones) ==
  [id |-> id, name |-> name, type |-> type, custom_field_values |-> fields,
   phone_numbers |-> phones, address |-> NoAddress]

Matter(id, display_number, client_name) ==
  [id |-> id, display_number |-> display_number, description |-> <<"d">>,
   client |-> [name |-> client_name]]

\* The remote's contacts, in pages of 2, 2 and 1 records.
RemoteContacts ==
  << <<Contact("c1", <<"J", "o">>, "Person", <<>>, <<>>),
       Contact("c2", <<"S", "a", "m">>, "Person",
               <<[field_name |-> "Nicknames", value |-> <<"j", ",", " ", "o">>]>>,
               <<>>)>>,
     <<Contact("c3", <<"A", "c", "o">>, "Company",
               <<[field_name |-> "Trade Names", value |-> <<"J", "o", "s">>]>>,
               <<>>),
       Contact("c4", <<"B", "o">>, "Person", <<>>,
               <<[number |-> <<"5", "5">>]>>)>>,
     <<Contact("c5", <<"J", "o", "a">>, "Person", <<>>, <<>>)>> >>

\* The remote's matters, one record a page.
RemoteMatters ==
  << <<Matter("m1", <<"1">>, <<"J", "o">>)>>,
     <<Matter("m2", <<"2">>, <<"S", "a", "m">>)>>,
     <<Matter("m3", <<"3">>, <<"B", "o">>)>> >>

RemotePagesOf(endpoint) ==
  IF endpoint = "contacts" THEN RemoteContacts ELSE RemoteMatters

\* The queries the form submits (name, date of birth, address, phone).
Queries ==
  { [name |-> <<"j", "o">>, dob |-> <<"1">>, address |-> <<>>, phone |-> <<>>],
    [name |-> <<"z">>, dob |-> <<"1">>, address |-> <<>>, phone |-> <<"5", "5">>],
    [name |-> <<>>, dob |-> <<"1">>, address |-> <<>>, phone |-> <<>>] }

\* The corpora and queries the matcher is run on.
Field(field_name, value) == [field_name |-> field_name, value |-> value]

MatcherContacts ==
  { Contact("k1", <<"J", "o", "h", "n", " ", "S", "m", "i", "t", "h">>, "Person", <<>>, <<>>),
    Contact("k2", <<"U", "n", "r", "e", "l", "a", "t", "e", "d", " ", "C", "o", "r", "p">>, "Company",
            <<Field("Trade Names", <<"A", "c", "m", "e", " ", "H", "o", "l", "d", "i", "n", "g", "s">>)>>, <<>>),
    Contact("k3", <<"A", "n", "n", " ", "L", "e", "e">>, "Person",
            <<Field("Trade Names", <<"A", "c", "m", "e", " ", "H", "o", "l", "d", "i", "n", "g", "s">>),
              Field("Officers and Directors", <<"J", "o", "h", "n", " ", "S", "m", "i", "t", "h">>),
              Field("Partners", <<"A", "c", "m", "e">>)>>, <<>>),
    Contact("k4", <<"H", "u", "b", " ", "C", "o">>, "Company",
            <<Field("Officers and Directors", <<"J", "o", "h", "n", " ", "S", "m", "i", "t", "h">>),
              Field("Partners", <<"A", "c", "m", "e">>)>>, <<>>),
    Contact("k5", <<"S", "a", "m">>, "Person",
            <<Field("Nicknames", <<"m", "i", ",", " ", "t", "h">>)>>,
            <<[number |-> <<"5", "5">>], [number |-> <<"5", "5">>]>>),
    Contact("k6", <<"A", "C", "M", "E">>, "Company", <<>>, <<>>) }

MatcherMatters ==
  { Matter("n1", <<"1">>, <<"J", "o", "h", "n", " ", "S", "m", "i", "t", "h">>),
    Matter("n2", <<"2">>, <<"A", "c", "m", "e", " ", "L", "t", "d">>) }

Query(name, phone) == [name |-> name, dob |-> <<>>, address |-> <<>>,
                       phone |-> phone]

MatcherQueries ==
  { Query(<<"J", "o", "h", "n", " ", "S", "m", "i", "t", "h">>, <<>>),
    Query(<<"A", "c", "m", "e">>, <<>>),
    Query(<<"s", "m", "i", "t", "h">>, <<"5", "5">>),
    Query(<<>>, <<>>),
    Query(<<"z", "e", "d">>, <<>>) }

\* The lists of at most n different records of a set, in every order.
Corpora(records, n) ==
  UNION {{c \in [1..k -> records] :
            \A i, j \in 1..k : i # j => c[i] # c[j]} : k \in 0..n}

\* ---------------------------------------------------------- the remote
\* A page of the resource endpoint: its records and its next_page cursor.
PageData(endpoint, page) ==
  LET pages == RemotePagesOf(endpoint)
  IN pages[((page - 1) % Len(pages)) + 1]

NextPageOf(n, page) == IF page < n THEN page + 1 ELSE None

\* The JSON body of a 200 answer as fetch_all_pages reads it: whether it has
\* a 'data' key, the records under it, meta.paging.next_page (None without
\* one) and meta.paging.next (FALSE without one).
Body(has_data, data, next_page, next) ==
  [has_data |-> has_data, data |-> data, next_page |-> next_page, next |-> next]

\* The ways a remote announces a further page: a numeric next_page cursor or
\* a boolean next flag; "any" is a remote that answers as it likes: a body
\* without 'data', or records or none with any cursor (none, the following
\* page, or the first page again).
PagingStyles == {"next_page", "next", "any"}

\* The bodies a remote of that style, serving n pages, may answer for a page.
Bodies(style, endpoint, n, page) ==
  IF style = "next_page"
  THEN {Body(TRUE, PageData(endpoint, page), NextPageOf(n, page), FALSE)}
  ELSE IF style = "next"
  THEN {Body(TRUE, PageData(endpoint, page), None, page < n)}
  ELSE {Body(FALSE, <<>>, None, FALSE)}
       \cup {Body(TRUE, data, next_page, FALSE) :
               data \in {PageData(endpoint, page), <<>>},
               next_page \in {None, 1, NextPageOf(MaxRemotePages, page)}}

\* What the token endpoint may answer: a rejection, or a grant with a
\* lifetime in clock ticks and with, without, or with a null refresh token.
ExpiresIn == {1, 2}
\* The 'refresh_token' key of the answer's JSON: missing, null, or a new
\* refresh token.
RefreshFields == {"absent", "null", "new"}

TokenResponses ==
  {[status |-> 400, refresh |-> "absent", expires_in |-> 1]}
  \cup [status : {200}, refresh : RefreshFields, expires_in : ExpiresIn]

\* What the resource endpoint may answer to a GET.
GetStatuses == {200, 401, 500}

\* ------------------------------------------------------------- the state
VARIABLES
  tokens,       \* the tokens table, in id order
  contacts_db,  \* the contacts table, in rowid order
  matters_db,   \* the matters table, in rowid order
  now,          \* datetime.now()
  npages,       \* pages the remote serves, per resource
  remote,       \* how the remote announces a further page
  max_pages,    \* the max_pages argument of fetch_all_pages
  runs,         \* script runs started so far
  rejected,     \* whether the token endpoint has rejected a refresh grant
  sess          \* each session's script run: position and locals

vars == <<tokens, contacts_db, matters_db, now, npages, remote, max_pages,
          runs, rejected, sess>>

NoFetch == [status |-> "none", warned |-> FALSE, last |-> "none"]
NoRequest == [grants |-> 0, gets |-> 0, n401 |-> 0]
NoResult == [kind |-> "none", conflicts |-> <<>>]
NoQuery == [name |-> <<>>, dob |-> <<>>, address |-> <<>>, phone |-> <<>>]

\* The locals of a script run that has not started.  req counts the
\* network calls of the clio_api_request under way, gvt is the branch the
\* latest get_valid_token took, fetch the outcome of each fetch_all_pages
\* of the run (last: what its latest page request brought), reauth whether
\* get_valid_token gave up on an expired token, info the query of the
\* latest conflict check on the loaded corpus and checks how many times in a
\* row it has been checked.
FreshRun ==
  [pc |-> "idle", qp_state |-> "", endpoint |-> "",
   all_data |-> <<>>, page |-> 0, pages_fetched |-> 0,
   contacts |-> <<>>, matters |-> <<>>, token |-> None, rt |-> None,
   req |-> NoRequest, gvt |-> "none", reauth |-> FALSE,
   fetch |-> [contacts |-> NoFetch, matters |-> NoFetch],
   load_msg |-> "", result |-> NoResult, info |-> NoQuery, checks |-> 0]

\* The state a step works on: the tables and the stepping session's locals.
St(s) == [tokens |-> tokens, contacts_db |-> contacts_db,
          matters_db |-> matters_db, rejected |-> FALSE, l |-> sess[s]]

\* The run is over: its locals are gone, what it showed stays on screen.
EndRun(st, result) ==
  [st EXCEPT !.l = [FreshRun EXCEPT !.result = result]]

\* --------------------------------------------------------- token grants
\* The tokens the endpoint hands out are new ones: numbered by the row
\* that will hold them.
NewToken(tbl) == Len(tbl) + 1

\* Mutant: the refreshed token is returned but never saved.
refresh_access_token_NoSave(tbl, refresh_token, resp) ==
  [tokens |-> tbl,
   ret |-> IF resp.status = 200 THEN NewToken(tbl) ELSE None]

\* token_data.get('refresh_token', default): the key's value when the answer
\* has the key, be it null, and the default only when it has not.
dict_get(resp, new_refresh_token, default) ==
  IF resp.refresh = "absent" THEN default
  ELSE IF resp.refresh = "null" THEN None
  ELSE new_refresh_token

\* refresh_access_token once the endpoint has answered: the table after
\* it and the value it returns.
refresh_access_token(tbl, refresh_token, resp) ==
  IF resp.status = 200
  THEN LET access_token == NewToken(tbl)
           new_refresh_token ==
             dict_get(resp, NewToken(tbl), refresh_token)
           token_expiry == now + resp.expires_in
       IN [tokens |-> save_token_to_db(tbl, access_token, new_refresh_token,
                                       token_expiry),
           ret |-> access_token]
  ELSE [tokens |-> tbl, ret |-> None]

\* The authorization-code exchange of authenticate once the endpoint has
\* answered: the table after it.
exchange_code(tbl, resp) ==
  IF resp.status = 200
  THEN save_token_to_db(tbl, NewToken(tbl),
                        dict_get(resp, NewToken(tbl), None),
                        now + resp.expires_in)
  ELSE tbl

\* The branch get_valid_token takes on the active record.
get_valid_token(row) ==
  IF row.access_token = None \/ row.token_expiry = None THEN "absent"
  ELSE IF IsExpired(row.token_expiry, now)
       THEN (IF row.refresh_token # None THEN "refresh" ELSE "no_refresh")
       ELSE "valid"

\* ------------------------------------------------------------ the cache
\* INSERT OR REPLACE of one record: a record of that id leaves its place.
Upsert(tbl, rec) ==
  SelectSeq(tbl, LAMBDA r : r.id # rec.id) \o <<rec>>

\* save_contacts_to_db / save_matters_to_db.
RECURSIVE save_to_db(_, _)
save_to_db(tbl, records) ==
  IF records = <<>> THEN tbl
  ELSE save_to_db(Upsert(tbl, Head(records)), Tail(records))

\* ----------------------------------------------------------- the script
Buttons == {"none", "check", "refresh"}
Inputs == [button : Buttons, query : Queries]

\* The part of the script after load_data: the form, the conflict-check
\* button, the refresh-data button.
Handler(st, inp) ==
  IF inp.button = "check"
  THEN IF inp.query.name # <<>>
       THEN LET conflicts == perform_advanced_conflict_check(
                               inp.query, st.l.contacts, st.l.matters)
            IN EndRun(st, [kind |-> IF conflicts # <<>> THEN "conflicts"
                                    ELSE "no_conflicts",
                           conflicts |-> conflicts])
       ELSE EndRun(st, [kind |-> "name_required", conflicts |-> <<>>])
  ELSE IF inp.button = "refresh"
  THEN EndRun([st EXCEPT !.contacts_db = <<>>, !.matters_db = <<>>],
              [kind |-> "rerun", conflicts |-> <<>>])
  ELSE EndRun(st, [kind |-> "form", conflicts |-> <<>>])

\* The tail of load_data: its message; the form comes next.
LoadDataEnd(st, fetched) ==
  LET msg == IF ~fetched THEN "from_db"
             ELSE IF st.l.contacts # <<>> /\ st.l.matters # <<>>
                  THEN "loaded" ELSE "failed"
  IN [st EXCEPT !.l.load_msg = msg, !.l.pc = "handler"]

\* clio_api_request sends a GET for the current page with a bearer token.
SendGet(st, token, pc) ==
  [st EXCEPT !.l.pc = pc, !.l.token = token, !.l.req.gets = @ + 1]

\* A refresh-token grant goes out to the token endpoint.
SendRefresh(st, refresh_token, pc) ==
  [st EXCEPT !.l.pc = pc, !.l.rt = refresh_token, !.l.req.grants = @ + 1]

RECURSIVE LoopTop(_)
RECURSIVE EndFetch(_, _)

\* fetch_all_pages from its first statement.
StartFetch(st, endpoint) ==
  LoopTop([st EXCEPT !.l.endpoint = endpoint, !.l.all_data = <<>>,
                     !.l.page = 1, !.l.pages_fetched = 0,
                     !.l.fetch[endpoint] =
                       [status |-> "running", warned |-> FALSE,
                        last |-> "none"]])

\* clio_api_request up to its first network call.
ApiRequest(st) ==
  LET st0 == [st EXCEPT !.l.req = NoRequest]
      row == get_token_from_db(st0.tokens)
      branch == get_valid_token(row)
  IN IF branch = "valid"
     THEN SendGet([st0 EXCEPT !.l.gvt = "valid"], row.access_token, "get1")
     ELSE IF branch = "refresh"
     THEN SendRefresh([st0 EXCEPT !.l.gvt = "refreshing"],
                      row.refresh_token, "gvt_refresh")
     ELSE EndFetch([st0 EXCEPT !.l.gvt = branch,
                               !.l.reauth = (branch = "no_refresh") \/ @],
                   TRUE)

\* Mutant: the cap lets one page too many through.
CapReached_OffByOne(pages_fetched) == pages_fetched > max_pages

\* The loop's test of the page cap.
CapReached(pages_fetched) == pages_fetched >= max_pages

\* The head of the while loop of fetch_all_pages.
LoopTop(st) ==
  IF CapReached(st.l.pages_fetched)
  THEN EndFetch([st EXCEPT !.l.fetch[st.l.endpoint].warned = TRUE], FALSE)
  ELSE ApiRequest(st)

\* fetch_all_pages after its loop: save, return, and load_data goes on.
EndFetch(st, failed) ==
  LET e == st.l.endpoint
      all_data == st.l.all_data
      st1 == [st EXCEPT !.l.fetch[e].status = IF failed THEN "failed" ELSE "ok",
                        !.l.fetch[e].last = IF failed THEN "failed" ELSE @,
                        !.l.endpoint = "", !.l.all_data = <<>>, !.l.page = 0,
                        !.l.pages_fetched = 0, !.l.token = None, !.l.rt = None]
  IN IF e = "contacts"
     THEN LET st2 == [st1 EXCEPT
                        !.contacts_db = save_to_db(st.contacts_db, all_data),
                        !.l.contacts = all_data]
          IN IF st2.l.matters = <<>>
             THEN StartFetch(st2, "matters")
             ELSE LoadDataEnd(st2, TRUE)
     ELSE LoadDataEnd([st1 EXCEPT
                         !.matters_db = save_to_db(st.matters_db, all_data),
                         !.l.matters = all_data],
                      TRUE)

\* Mutant: the loop does not count the pages it accumulates.
ProcessPage_Uncounted(st, body) ==
  IF body.has_data
  THEN LET st1 == [st EXCEPT !.l.all_data = @ \o body.data,
                             !.l.fetch[st.l.endpoint].last =
                               IF body.data # <<>> THEN "records" ELSE "empty"]
       IN IF body.next_page # None
          THEN LoopTop([st1 EXCEPT !.l.page = body.next_page])
          ELSE EndFetch(st1, FALSE)
  ELSE EndFetch([st EXCEPT !.l.fetch[st.l.endpoint].last = "no_data"], FALSE)

\* The body of the loop for the JSON body clio_api_request returned.
ProcessPage(st, body) ==
  IF body.has_data
  THEN LET next_page == body.next_page
           st1 == [st EXCEPT !.l.all_data = @ \o body.data,
                             !.l.pages_fetched = @ + 1,
                             !.l.fetch[st.l.endpoint].last =
                               IF body.data # <<>> THEN "records" ELSE "empty"]
       IN IF next_page # None
          THEN LoopTop([st1 EXCEPT !.l.page = next_page])
          ELSE EndFetch(st1, FALSE)
  ELSE EndFetch([st EXCEPT !.l.fetch[st.l.endpoint].last = "no_data"], FALSE)

\* load_data from its first statement.
load_data(st) ==
  LET st1 == [st EXCEPT !.l.contacts = st.contacts_db,
                        !.l.matters = st.matters_db]
  IN IF st1.l.contacts = <<>> THEN StartFetch(st1, "contacts")
     ELSE IF st1.l.matters = <<>> THEN StartFetch(st1, "matters")
     ELSE LoadDataEnd(st1, FALSE)

\* The second half of authenticate: a valid token, or the authorization
\* URL and st.stop().
AuthCheck(st) ==
  LET row == get_token_from_db(st.tokens)
  IN IF row.access_token = None \/ row.token_expiry = None
        \/ IsExpired(row.token_expiry, now)
     THEN EndRun(st, [kind |-> "auth_url", conflicts |-> <<>>])
     ELSE load_data(st)

\* ---------------------------------------------------------- the actions
\* The `state` the authorization URL carries, and what a callback may
\* bring back in its place.
NONCE == "streamlit_app"
CallbackStates == {NONCE, "forged"}

Apply(s, st) ==
  /\ tokens' = st.tokens
  /\ contacts_db' = st.contacts_db
  /\ matters_db' = st.matters_db
  /\ sess' = [sess EXCEPT ![s] = st.l]
  /\ rejected' = (rejected \/ st.rejected)
  /\ UNCHANGED <<now, npages, remote, max_pages>>

\* A session (re)runs the script: with a callback's `code` in the query
\* parameters authenticate posts the exchange, without one it goes on.
StartRun(s) ==
  /\ sess[s].pc = "idle"
  /\ runs < MaxRuns
  /\ runs' = runs + 1
  /\ \E code \in BOOLEAN, state \in CallbackStates :
       LET st == [St(s) EXCEPT !.l = FreshRun]
       IN IF code
          THEN Apply(s, [st EXCEPT !.l.pc = "exchange", !.l.qp_state = state])
          ELSE Apply(s, AuthCheck(st))

\* The token endpoint answers the authorization-code exchange.
ExchangeResponse(s) ==
  /\ sess[s].pc = "exchange"
  /\ \E resp \in TokenResponses :
       /\ resp.status = 200 => Len(tokens) < MaxTokens
       /\ Apply(s, AuthCheck([St(s) EXCEPT
                                !.tokens = exchange_code(tokens, resp),
                                !.l.qp_state = ""]))
  /\ UNCHANGED runs

\* The token endpoint answers the refresh get_valid_token asked for.
GvtRefreshResponse(s) ==
  /\ sess[s].pc = "gvt_refresh"
  /\ \E resp \in TokenResponses :
       /\ resp.status = 200 => Len(tokens) < MaxTokens
       /\ LET r == refresh_access_token(tokens, sess[s].rt, resp)
              st == [St(s) EXCEPT !.tokens = r.tokens]
          IN IF r.ret # None
             THEN Apply(s, SendGet([st EXCEPT !.l.gvt = "refreshed"],
                                   r.ret, "get1"))
             ELSE Apply(s, EndFetch([st EXCEPT !.l.gvt = "rejected",
                                                !.l.reauth = TRUE,
                                                !.rejected = TRUE],
                                    TRUE))
  /\ UNCHANGED runs

\* The resource endpoint answers the first GET of a page.
Get1Response(s) ==
  /\ sess[s].pc = "get1"
  /\ \E status \in GetStatuses :
       IF status = 200
       THEN \E body \in Bodies(remote, sess[s].endpoint,
                               npages[sess[s].endpoint], sess[s].page) :
              Apply(s, ProcessPage(St(s), body))
       ELSE IF status = 401
       THEN LET st == [St(s) EXCEPT !.l.req.n401 = @ + 1]
                refresh_token == get_refresh_token(tokens)
            IN IF refresh_token # None
               THEN Apply(s, SendRefresh(st, refresh_token, "r401_refresh"))
               ELSE Apply(s, EndFetch(st, TRUE))
       ELSE Apply(s, EndFetch(St(s), TRUE))
  /\ UNCHANGED runs

\* Mutant: the page is retried whether or not the refresh gave a token.
R401RefreshResponse_RetryAlways(s) ==
  /\ sess[s].pc = "r401_refresh"
  /\ \E resp \in TokenResponses :
       /\ resp.status = 200 => Len(tokens) < MaxTokens
       /\ LET r == refresh_access_token(tokens, sess[s].rt, resp)
              st == [St(s) EXCEPT !.tokens = r.tokens]
          IN Apply(s, SendGet(st, IF r.ret # None THEN r.ret ELSE sess[s].token,
                              "get2"))
  /\ UNCHANGED runs

\* The token endpoint answers the refresh that followed a 401.
R401RefreshResponse(s) ==
  /\ sess[s].pc = "r401_refresh"
  /\ \E resp \in TokenResponses :
       /\ resp.status = 200 => Len(tokens) < MaxTokens
       /\ LET r == refresh_access_token(tokens, sess[s].rt, resp)
              st == [St(s) EXCEPT !.tokens = r.tokens]
          IN IF r.ret # None
             THEN Apply(s, SendGet(st, r.ret, "get2"))
             ELSE Apply(s, EndFetch([st EXCEPT !.rejected = TRUE], TRUE))
  /\ UNCHANGED runs

\* The resource endpoint answers the retry of a page.
Get2Response(s) ==
  /\ sess[s].pc = "get2"
  /\ \E status \in GetStatuses :
       IF status = 200
       THEN \E body \in Bodies(remote, sess[s].endpoint,
                               npages[sess[s].endpoint], sess[s].page) :
              Apply(s, ProcessPage(St(s), body))
       ELSE Apply(s, EndFetch([St(s) EXCEPT
                                 !.l.req.n401 = IF status = 401 THEN @ + 1
                                                ELSE @],
                              TRUE))
  /\ UNCHANGED runs

\* The rest of the script, with what the user entered and pressed.
RunHandler(s) ==
  /\ sess[s].pc = "handler"
  /\ \E inp \in Inputs : Apply(s, Handler(St(s), inp))
  /\ UNCHANGED runs

TokenCallPcs == {"exchange", "gvt_refresh", "r401_refresh"}

\* Mutant: a row is written before the call to the token endpoint fails.
TokenCallFails_PartialWrite(s) ==
  /\ sess[s].pc \in TokenCallPcs
  /\ Len(tokens) < MaxTokens
  /\ Apply(s, EndRun([St(s) EXCEPT
                        !.tokens = save_token_to_db(tokens, NewToken(tokens),
                                                    sess[s].rt, now)],
                      [kind |-> IF sess[s].pc = "exchange"
                                THEN "exchange_exception"
                                ELSE "refresh_exception",
                       conflicts |-> <<>>]))
  /\ UNCHANGED runs

\* requests.post to the token endpoint raises (no connection, a timeout):
\* nothing catches the exception and the script run ends with it.
TokenCallFails(s) ==
  /\ sess[s].pc \in TokenCallPcs
  /\ Apply(s, EndRun(St(s), [kind |-> IF sess[s].pc = "exchange"
                                      THEN "exchange_exception"
                                      ELSE "refresh_exception",
                             conflicts |-> <<>>]))
  /\ UNCHANGED runs

\* Mutant: the findings pile up from one check to the next.
ConflictCheck_Accumulating(s) ==
  /\ sess[s].pc = "handler"
  /\ sess[s].checks < MaxChecks
  /\ \E info \in MatcherQueries :
       LET conflicts == sess[s].result.conflicts
                          \o perform_advanced_conflict_check(
                               info, sess[s].contacts, sess[s].matters)
       IN sess' = [sess EXCEPT ![s].info = info,
                               ![s].checks =
                                 IF info = sess[s].info THEN @ + 1 ELSE 1,
                               ![s].result =
                                 [kind |-> IF conflicts # <<>> THEN "conflicts"
                                           ELSE "no_conflicts",
                                  conflicts |-> conflicts]]
  /\ UNCHANGED <<tokens, contacts_db, matters_db, now, npages, remote,
                 max_pages, runs, rejected>>

\* perform_advanced_conflict_check called with a query on the corpus the
\* run has loaded; the corpus stays loaded for the next check.
ConflictCheck(s) ==
  /\ sess[s].pc = "handler"
  /\ sess[s].checks < MaxChecks
  /\ \E info \in MatcherQueries :
       LET conflicts == perform_advanced_conflict_check(
                          info, sess[s].contacts, sess[s].matters)
       IN sess' = [sess EXCEPT ![s].info = info,
                               ![s].checks =
                                 IF info = sess[s].info THEN @ + 1 ELSE 1,
                               ![s].result =
                                 [kind |-> IF conflicts # <<>> THEN "conflicts"
                                           ELSE "no_conflicts",
                                  conflicts |-> conflicts]]
  /\ UNCHANGED <<tokens, contacts_db, matters_db, now, npages, remote,
                 max_pages, runs, rejected>>

\* Time passes.
Tick ==
  /\ now < MaxNow
  /\ now' = now + 1
  /\ UNCHANGED <<tokens, contacts_db, matters_db, npages, remote, max_pages,
                 runs, rejected, sess>>

Init ==
  /\ tokens = <<>>
  /\ contacts_db = <<>>
  /\ matters_db = <<>>
  /\ now = 1
  /\ npages = [contacts |-> 2, matters |-> 1]
  /\ remote = "next_page"
  /\ max_pages = 10
  /\ runs = 0
  /\ rejected = FALSE
  /\ sess = [s \in Sessions |-> FreshRun]

\* fetch_all_pages called with any cap, on a remote of any length.
CapChoices == (1..MaxRemotePages) \cup {10}

InitFetch ==
  /\ tokens = <<>>
  /\ contacts_db = <<>>
  /\ matters_db = <<>>
  /\ now = 1
  /\ npages \in [contacts : 1..MaxRemotePages, matters : {1}]
  /\ remote = "next_page"
  /\ max_pages \in CapChoices
  /\ runs = 0
  /\ rejected = FALSE
  /\ sess = [s \in Sessions |-> FreshRun]

Step(s) ==
  \/ StartRun(s)
  \/ ExchangeResponse(s)
  \/ GvtRefreshResponse(s)
  \/ Get1Response(s)
  \/ R401RefreshResponse(s)
  \/ Get2Response(s)
  \/ RunHandler(s)

\* One session uses the application.
Main == "s1"

Next == Step(Main) \/ Tick

Spec == Init /\ [][Next]_vars

\* Several sessions use it at once: their script runs interleave at every
\* network call.
NextConcurrent == (\E s \in Sessions : Step(s)) \/ Tick

SpecConcurrent == Init /\ [][NextConcurrent]_vars

\* The fetch on its own: no token expires while it runs.
NextFetch ==
  \/ StartRun(Main)
  \/ ExchangeResponse(Main)
  \/ Get1Response(Main)
  \/ R401RefreshResponse(Main)
  \/ Get2Response(Main)
  \/ RunHandler(Main)

SpecFetch == InitFetch /\ [][NextFetch]_vars

\* The fetch against every kind of remote, under a cap the remote's pages
\* can exceed; a credential with a refresh token is in the store.
RemoteCaps == {1, 2}

InitRemote ==
  /\ now = 1
  /\ tokens = exchange_code(<<>>, [status |-> 200, refresh |-> "new",
                                   expires_in |-> MaxNow])
  /\ contacts_db = <<>>
  /\ matters_db = <<>>
  /\ remote \in PagingStyles
  /\ npages \in [contacts : IF remote = "any" THEN {MaxRemotePages}
                              ELSE 1..MaxRemotePages,
                  matters : {1}]
  /\ max_pages \in RemoteCaps
  /\ runs = 0
  /\ rejected = FALSE
  /\ sess = [s \in Sessions |-> FreshRun]

NextRemote ==
  \/ StartRun(Main)
  \/ Get1Response(Main)
  \/ R401RefreshResponse(Main)
  \/ Get2Response(Main)
  \/ RunHandler(Main)

SpecRemote == InitRemote /\ [][NextRemote]_vars

\* One session uses the application over a network that may fail.
NextTransport == Step(Main) \/ Tick \/ TokenCallFails(Main)

SpecTransport == Init /\ [][NextTransport]_vars

\* The matcher on its own: a run has loaded some corpus and shows the form.
InitMatcher ==
  /\ now = 1
  /\ tokens = exchange_code(<<>>, [status |-> 200, refresh |-> "new",
                                   expires_in |-> MaxNow])
  /\ contacts_db \in Corpora(MatcherContacts, MaxCorpus)
  /\ matters_db \in Corpora(MatcherMatters, MaxCorpus)
  /\ npages = [contacts |-> 2, matters |-> 1]
  /\ remote = "next_page"
  /\ max_pages = 10
  /\ runs = 1
  /\ rejected = FALSE
  /\ sess = [s \in Sessions |->
               IF s = Main
               THEN [FreshRun EXCEPT !.pc = "handler",
                                     !.contacts = contacts_db,
                                     !.matters = matters_db,
                                     !.load_msg = "from_db"]
               ELSE FreshRun]

NextMatcher == ConflictCheck(Main)

SpecMatcher == InitMatcher /\ [][NextMatcher]_vars

\* ------------------------------------------------------------ the claims
Endpoints == {"contacts", "matters"}

\* What the run's fetch_all_pages(endpoint) returned to load_data.
Returned(s, e) == IF e = "contacts" THEN sess[s].contacts ELSE sess[s].matters

\* The records of the remote's pages 1..k, in page order.
RECURSIVE Pages(_, _)
Pages(e, k) == IF k = 0 THEN <<>> ELSE Pages(e, k - 1) \o PageData(e, k)

Min(a, b) == IF a <= b THEN a ELSE b

InRefresh(s) == sess[s].pc \in {"gvt_refresh", "r401_refresh"}

\* C1: get_valid_token never hands out an expired record that has a refresh
\* token; it sends one refresh grant for it, with that refresh token, and
\* when the grant succeeds the new access token is the one saved as the
\* active record and the one the call returns (it goes out with the GET).
C1_ExpiredTokenIsRefreshed ==
  [][\A s \in Sessions :
       sess'[s] # sess[s] =>
         LET l0 == sess[s]
             l1 == sess'[s]
             row == get_token_from_db(tokens')
         IN /\ (l1.pc = "get1" /\ l1.gvt = "valid")
                 => ~(row.token_expiry <= now /\ row.refresh_token # None)
            /\ l1.pc = "gvt_refresh"
                 => /\ row.token_expiry <= now
                    /\ row.refresh_token # None
                    /\ l1.rt = row.refresh_token
                    /\ l1.req.grants = 1
                    /\ l1.req.gets = 0
            /\ (l0.pc = "gvt_refresh" /\ l1.pc = "get1"
                  /\ l1.endpoint = l0.endpoint /\ l1.page = l0.page)
                 => /\ Len(tokens') = Len(tokens) + 1
                    /\ l1.token # None
                    /\ l1.token = row.access_token
                    /\ \A i \in 1..Len(tokens) : tokens[i].access_token # l1.token
                    /\ row.token_expiry > now
                    /\ l1.gvt = "refreshed"
                    /\ l1.req.grants = 1
                    /\ l1.req.gets = 1
  ]_vars

C1_Witness ==
  \E s \in Sessions :
    /\ sess[s].pc = "get1"
    /\ sess[s].gvt = "refreshed"
    /\ Len(tokens) >= 2
    /\ sess[s].token = get_token_from_db(tokens).access_token

\* C2: when get_valid_token gives up on an expired token (no refresh token,
\* or the refresh was rejected) the credential store is cleared: loading it
\* returns no credential.
C2_RefreshFailureClearsStore ==
  [][\A s \in Sessions :
       (~sess[s].reauth /\ sess'[s].reauth)
         => get_token_from_db(tokens') = NoRow
  ]_vars

\* C3: at most one refresh-token grant is in flight at any time.
C3_SingleFlightRefresh ==
  Cardinality({s \in Sessions : InRefresh(s)}) <= 1

\* C4: a fetch_all_pages that stopped at a failed page request returns none
\* of the records of the earlier pages to its caller.
C4_FailedFetchReturnsNoRecords ==
  \A s \in Sessions, e \in Endpoints :
    sess[s].fetch[e].status = "failed" => Returned(s, e) = <<>>

\* C5 as stated: a page request that received a single 401 has made exactly
\* one refresh grant and exactly two GETs, and none makes more than two.
C5_SingleUnauthorizedOneRefreshOneRetry ==
  \A s \in Sessions :
    /\ sess[s].req.gets <= 2
    /\ (sess[s].pc = "handler" /\ sess[s].req.n401 = 1)
         => (sess[s].req.grants = 1 /\ sess[s].req.gets = 2)

\* C5 as amended: on the 401 of a page's first GET one more refresh grant
\* goes out, only with a stored refresh token; the page is retried once,
\* with the refreshed token, exactly when that grant succeeds; whatever the
\* retry brings there is no third GET, and on a 200 the fetch goes on with
\* the next page.
C5_RefreshOnceRetryOnce ==
  [][\A s \in Sessions :
       sess'[s] # sess[s] =>
         LET l0 == sess[s]
             l1 == sess'[s]
             same == l1.endpoint = l0.endpoint /\ l1.page = l0.page
                       /\ l1.all_data = l0.all_data
         IN /\ l1.req.gets <= 2
            /\ l1.req.grants <= 2
            /\ l1.pc = "r401_refresh"
                 => /\ l0.pc = "get1"
                    /\ same
                    /\ l1.req.n401 = 1
                    /\ l1.req.gets = 1
                    /\ l1.req.grants = l0.req.grants + 1
                    /\ l1.rt # None
                    /\ l1.rt = get_refresh_token(tokens)
            /\ (l0.pc = "get1" /\ l1.req.n401 = l0.req.n401 + 1)
                 => IF get_refresh_token(tokens) # None
                    THEN l1.pc = "r401_refresh"
                    ELSE /\ l1.pc = "handler"
                         /\ l1.req.grants = l0.req.grants
                         /\ l1.req.gets = 1
            /\ l0.pc = "r401_refresh"
                 => IF Len(tokens') > Len(tokens)
                    THEN /\ l1.pc = "get2"
                         /\ same
                         /\ l1.req.gets = 2
                         /\ l1.req.grants = l0.req.grants
                         /\ l1.token = get_token_from_db(tokens').access_token
                    ELSE /\ l1.pc \notin {"get1", "get2"} \/ ~same
                         /\ l1.fetch[l0.endpoint].status = "failed"
            /\ l0.pc = "get2"
                 => /\ l1.pc \notin {"r401_refresh", "get2"}
                    /\ (l1.endpoint = l0.endpoint /\ l1.endpoint # "")
                         => /\ l1.page = l0.page + 1
                            /\ l1.pages_fetched = l0.pages_fetched + 1
                            /\ l1.all_data
                                 = l0.all_data \o PageData(l0.endpoint, l0.page)
  ]_vars

C5_Witness ==
  \E s \in Sessions :
    /\ sess[s].pc = "get2"
    /\ sess[s].req.n401 = 1
    /\ sess[s].req.gets = 2
    /\ sess[s].req.grants = 1
    /\ sess[s].token = get_token_from_db(tokens).access_token

\* C6: a fetch that met no error returns the records of pages
\* 1..min(N, max_pages) in page order and warns of the page cap exactly when
\* N > max_pages; pages of 2, 2 and 1 records give 5 records and no warning
\* under a cap of 10, 4 records and the warning under a cap of 2.
C6_FetchReturnsPagesUpToCap ==
  \A s \in Sessions, e \in Endpoints :
    sess[s].fetch[e].status = "ok"
      => /\ Returned(s, e) = Pages(e, Min(npages[e], max_pages))
         /\ sess[s].fetch[e].warned <=> npages[e] > max_pages
         /\ (e = "contacts" /\ npages[e] = 3 /\ max_pages = 10)
              => (Len(Returned(s, e)) = 5 /\ ~sess[s].fetch[e].warned)
         /\ (e = "contacts" /\ npages[e] = 3 /\ max_pages = 2)
              => (Len(Returned(s, e)) = 4 /\ sess[s].fetch[e].warned)

C6_Witness ==
  \E s \in Sessions :
    /\ sess[s].fetch["contacts"].status = "ok"
    /\ npages["contacts"] = 3
    /\ max_pages = 2
    /\ Len(sess[s].contacts) = 4
    /\ sess[s].fetch["contacts"].warned

\* C7: no authorization-code exchange is sent for a callback whose `state`
\* is not the nonce of the authorization URL.
C7_CallbackStateChecked ==
  \A s \in Sessions : sess[s].pc = "exchange" => sess[s].qp_state = NONCE

\* C8: the conflict check reports findings, or their absence, only over a
\* corpus none of whose fetches failed.
C8_NoFindingsOverFailedFetch ==
  [][\A s \in Sessions :
       (sess[s].pc = "handler"
          /\ sess'[s].result.kind \in {"conflicts", "no_conflicts"})
         => \A e \in Endpoints : sess[s].fetch[e].status # "failed"
  ]_vars

\* C9: the authorization URL is shown only when there is no credential, or
\* the credential has no refresh token, or a refresh grant has been
\* rejected; never merely because the access token expired.
C9_ExpiryNeverAsksForAuthorization ==
  [][\A s \in Sessions :
       (sess'[s] # sess[s] /\ sess'[s].result.kind = "auth_url")
         => \/ get_token_from_db(tokens').access_token = None
            \/ get_token_from_db(tokens').refresh_token = None
            \/ rejected'
  ]_vars

\* C10: a token get_valid_token returns without refreshing is the active
\* record's access token, that record expires strictly later than now, and
\* the call sends nothing to the token endpoint and writes no row; a record
\* that expires later than now is never refreshed nor given up.
C10_ValidTokenReturnedAsIs ==
  [][\A s \in Sessions :
       sess'[s] # sess[s] =>
         LET l0 == sess[s]
             l1 == sess'[s]
             row == get_token_from_db(tokens')
             live == row.access_token # None /\ row.token_expiry > now
         IN /\ (l1.pc = "get1" /\ l1.gvt = "valid")
                 => /\ live
                    /\ l1.token = row.access_token
                    /\ l1.req.grants = 0
                    /\ l0.pc # "exchange" => tokens' = tokens
            /\ l1.pc = "gvt_refresh" => ~live
            /\ (l0.pc # "handler" /\ l1.pc = "handler"
                  /\ l1.gvt \in {"absent", "no_refresh"})
                 => ~live
  ]_vars

C10_Witness ==
  \E s \in Sessions :
    /\ sess[s].pc = "get1"
    /\ sess[s].gvt = "valid"
    /\ sess[s].req.grants = 0
    /\ now > 1
    /\ get_token_from_db(tokens).token_expiry > now
    /\ sess[s].token = get_token_from_db(tokens).access_token

\* What load_data's fetch of an endpoint left in the local cache.
Cache(e) == IF e = "contacts" THEN contacts_db ELSE matters_db

\* A session is waiting for the answer to a call of clio_api_request.
RequestPcs == {"gvt_refresh", "get1", "r401_refresh", "get2"}

\* How far a fetch has come: pages accumulated, then the calls of the page
\* request under way.
Progress(l) ==
  4 * l.pages_fetched
  + (CASE l.pc = "gvt_refresh" -> 0 [] l.pc = "get1" -> 1
       [] l.pc = "r401_refresh" -> 2 [] OTHER -> 3)

\* C11: from a remote that announces further pages with a boolean `next`
\* flag, a fetch that met no error returns the records of pages
\* 1..min(N, max_pages), as it does from a remote with a next_page cursor.
C11_NextFlagFetchesEveryPage ==
  \A s \in Sessions, e \in Endpoints :
    (remote = "next" /\ sess[s].fetch[e].status = "ok")
      => Returned(s, e) = Pages(e, Min(npages[e], max_pages))

\* C18 as stated: no page is requested once max_pages pages are accumulated,
\* and a fetch is over once a page request has brought no records (a failed
\* request, a body without 'data', or an empty 'data' list).
C18_FetchStopsAtFirstPageWithoutRecords ==
  \A s \in Sessions, e \in Endpoints :
    sess[s].fetch[e].status = "running"
      => /\ sess[s].pages_fetched < max_pages
         /\ sess[s].fetch[e].last \in {"none", "records"}

\* C18 as amended: whatever the remote answers, every step of a running
\* fetch either ends it or takes it further (a page more, or the next call of
\* the page request under way), a page is only requested while fewer than
\* max_pages pages are accumulated, and the fetch is over once a page
\* request failed or its body had no 'data'; a page with an empty 'data'
\* list counts as a page and the fetch goes on to the cursor it names.
C18_FetchTerminatesWithinCap ==
  [][\A s \in Sessions :
       sess'[s] # sess[s] =>
         LET l0 == sess[s]
             l1 == sess'[s]
             e == l0.endpoint
             goes_on == /\ l0.pc \in RequestPcs
                        /\ l1.pc \in RequestPcs
                        /\ l1.endpoint = e
         IN /\ l1.pc \in RequestPcs
                 => /\ l1.pages_fetched < max_pages
                    /\ Progress(l1) < 4 * max_pages
                    /\ l1.fetch[l1.endpoint].last \in {"none", "records", "empty"}
            /\ goes_on
                 => /\ Progress(l1) > Progress(l0)
                    /\ l1.pages_fetched \in {l0.pages_fetched, l0.pages_fetched + 1}
                    /\ l1.pages_fetched = l0.pages_fetched + 1
                         => /\ l0.pc \in {"get1", "get2"}
                            /\ l1.pc \in {"gvt_refresh", "get1"}
                            /\ l1.fetch[e].last \in {"records", "empty"}
            /\ (l0.pc \in {"get1", "get2"}
                  /\ l1.fetch[e].last \in {"no_data", "failed"})
                 => /\ l1.fetch[e].status \in {"ok", "failed"}
                    /\ (IF e = "contacts" THEN l1.contacts ELSE l1.matters)
                         = l0.all_data
  ]_vars

C18_Witness ==
  \E s \in Sessions :
    /\ remote = "any"
    /\ max_pages = 2
    /\ sess[s].fetch["contacts"].status = "ok"
    /\ sess[s].fetch["contacts"].warned
    /\ sess[s].contacts = PageData("contacts", 1) \o PageData("contacts", 1)

\* C19: the local cache of a resource is empty or holds the records of a
\* fetch that ran to completion (pages 1..min(N, max_pages)); the records of
\* the pages before a failed page request are not written to it.
C19_CacheOnlyFromCompleteFetch ==
  \A e \in Endpoints :
    Cache(e) \in {<<>>, Pages(e, Min(npages[e], max_pages))}

\* ------------------------------------------------ the matcher's claims
\* Case folding and containment as the rules state them.
Letters ==
  {<<"A", "a">>, <<"B", "b">>, <<"C", "c">>, <<"D", "d">>, <<"E", "e">>,
   <<"F", "f">>, <<"G", "g">>, <<"H", "h">>, <<"I", "i">>, <<"J", "j">>,
   <<"K", "k">>, <<"L", "l">>, <<"M", "m">>, <<"N", "n">>, <<"O", "o">>,
   <<"P", "p">>, <<"Q", "q">>, <<"R", "r">>, <<"S", "s">>, <<"T", "t">>,
   <<"U", "u">>, <<"V", "v">>, <<"W", "w">>, <<"X", "x">>, <<"Y", "y">>,
   <<"Z", "z">>}

Fold(str) ==
  [i \in 1..Len(str) |->
     IF \E p \in Letters : p[1] = str[i]
     THEN (CHOOSE p \in Letters : p[1] = str[i])[2]
     ELSE str[i]]

\* a is b without some first and some last characters.
Substring(a, b) ==
  \E pre \in 0..Len(b) :
    /\ pre + Len(a) <= Len(b)
    /\ \A i \in 1..Len(a) : b[pre + i] = a[i]

\* A session shows the outcome of a conflict check on its loaded corpus.
Checked(s) == sess[s].pc = "handler" /\ sess[s].checks > 0

MatterKind == "Opposing party match in matter"

\* The findings of one rule kind about one contact, in the order reported.
About(found, contact, kind) ==
  SelectSeq(found, LAMBDA f : f.subject = contact.name /\ f.kind = kind)

AboutContact(found, contact) ==
  SelectSeq(found, LAMBDA f : f.subject = contact.name /\ f.kind # MatterKind)

\* The values of the contact's custom fields of that name.
FieldValues(contact, field_name) ==
  {contact.custom_field_values[i].value :
     i \in {j \in 1..Len(contact.custom_field_values) :
              contact.custom_field_values[j].field_name = field_name}}

Contains(contact, field_name, name) ==
  \E v \in FieldValues(contact, field_name) : Substring(Fold(name), Fold(v))

JohnSmith == <<"J", "o", "h", "n", " ", "S", "m", "i", "t", "h">>
Acme == <<"A", "c", "m", "e">>

\* C12: a contact without custom fields, phone numbers and address gets
\* exactly one finding, a Name match, when the query name is a
\* case-insensitive substring of its name, and none otherwise; "John Smith"
\* against the one Person contact "John Smith" and no matters gives exactly
\* one finding, a Name match.
C12_NameOnlyContactOneNameFinding ==
  \A s \in Sessions :
    Checked(s) =>
      LET info == sess[s].info
          found == sess[s].result.conflicts
          contacts_ == sess[s].contacts
      IN /\ \A i \in 1..Len(contacts_) :
              LET contact == contacts_[i]
              IN (/\ contact.custom_field_values = <<>>
                  /\ contact.phone_numbers = <<>>
                  /\ contact.address.street = <<>>)
                   => IF Substring(Fold(info.name), Fold(contact.name))
                      THEN /\ Len(AboutContact(found, contact)) = 1
                           /\ AboutContact(found, contact)[1].kind = "Name match"
                      ELSE AboutContact(found, contact) = <<>>
         /\ (/\ info = Query(JohnSmith, <<>>)
             /\ Len(contacts_) = 1
             /\ contacts_[1].name = JohnSmith
             /\ contacts_[1].type = "Person"
             /\ contacts_[1].custom_field_values = <<>>
             /\ sess[s].matters = <<>>)
              => /\ Len(found) = 1
                 /\ found[1].kind = "Name match"

C12_Witness ==
  \E s \in Sessions :
    /\ Checked(s)
    /\ sess[s].info = Query(JohnSmith, <<>>)
    /\ Len(sess[s].contacts) = 1
    /\ sess[s].contacts[1].name = JohnSmith
    /\ sess[s].contacts[1].custom_field_values = <<>>
    /\ sess[s].matters = <<>>
    /\ Len(sess[s].result.conflicts) = 1

CorporateKinds ==
  {"Officer/Director match", "Partner match", "Trade name match"}

\* C13: Officer/Director, Partner and Trade name findings are made only
\* about Company contacts, one of each kind at most; about a Company the
\* Trade name finding is made exactly when the query name is a
\* case-insensitive substring of its "Trade Names" field (likewise the two
\* others with their fields); a Person with the same fields gets none.
\* "Acme" against the Company "Unrelated Corp" with Trade Names
\* "Acme Holdings" gives exactly one finding, a Trade name match.
C13_CorporateRulesOnlyForCompanies ==
  \A s \in Sessions :
    Checked(s) =>
      LET info == sess[s].info
          found == sess[s].result.conflicts
          contacts_ == sess[s].contacts
          Count(contact, kind, field_name) ==
            IF contact.type = "Company"
               /\ Contains(contact, field_name, info.name)
            THEN 1 ELSE 0
      IN /\ \A i \in 1..Len(contacts_) :
              LET contact == contacts_[i]
              IN /\ Len(About(found, contact, "Trade name match"))
                      = Count(contact, "Trade name match", "Trade Names")
                 /\ Len(About(found, contact, "Officer/Director match"))
                      = Count(contact, "Officer/Director match",
                              "Officers and Directors")
                 /\ Len(About(found, contact, "Partner match"))
                      = Count(contact, "Partner match", "Partners")
         /\ (/\ info.name = Acme
             /\ Len(contacts_) = 1
             /\ contacts_[1].type = "Company"
             /\ contacts_[1].name = <<"U", "n", "r", "e", "l", "a", "t", "e", "d", " ", "C", "o", "r", "p">>
             /\ sess[s].matters = <<>>)
              => /\ Len(found) = 1
                 /\ found[1].kind = "Trade name match"

C13_Witness ==
  \E s \in Sessions :
    /\ Checked(s)
    /\ sess[s].info.name = Acme
    /\ Len(sess[s].contacts) = 2
    /\ sess[s].contacts[1].type = "Company"
    /\ sess[s].contacts[1].name = <<"U", "n", "r", "e", "l", "a", "t", "e", "d", " ", "C", "o", "r", "p">>
    /\ sess[s].contacts[2].type = "Person"
    /\ FieldValues(sess[s].contacts[2], "Trade Names") # {}
    /\ Len(sess[s].result.conflicts) = 1
    /\ sess[s].result.conflicts[1].kind = "Trade name match"

ContactPos(contacts_, subject) ==
  CHOOSE i \in 1..Len(contacts_) : contacts_[i].name = subject

MatterPos(matters_, subject) ==
  CHOOSE i \in 1..Len(matters_) : matters_[i].display_number = subject

\* C17: in the list of findings every finding about a contact comes before
\* every finding about a matter, the findings about contacts follow the
\* order of the contacts and those about matters the order of the matters.
C17_FindingsInDiscoveryOrder ==
  \A s \in Sessions :
    Checked(s) =>
      LET found == sess[s].result.conflicts
      IN \A a, b \in 1..Len(found) :
           a < b =>
             /\ found[a].kind = MatterKind => found[b].kind = MatterKind
             /\ (found[a].kind # MatterKind /\ found[b].kind # MatterKind)
                  => ContactPos(sess[s].contacts, found[a].subject)
                       <= ContactPos(sess[s].contacts, found[b].subject)
             /\ (found[a].kind = MatterKind /\ found[b].kind = MatterKind)
                  => MatterPos(sess[s].matters, found[a].subject)
                       <= MatterPos(sess[s].matters, found[b].subject)

C17_Witness ==
  \E s \in Sessions :
    /\ Checked(s)
    /\ Len(sess[s].result.conflicts) = 4
    /\ sess[s].result.conflicts[1].kind # MatterKind
    /\ sess[s].result.conflicts[2].kind # MatterKind
    /\ sess[s].result.conflicts[1].subject # sess[s].result.conflicts[2].subject
    /\ sess[s].result.conflicts[3].kind = MatterKind
    /\ sess[s].result.conflicts[4].kind = MatterKind
    /\ sess[s].result.conflicts[3].subject # sess[s].result.conflicts[4].subject

\* C20: no contact gets two findings of the same rule kind from one check.
C20_OneFindingPerRuleKindAndContact ==
  \A s \in Sessions :
    Checked(s) =>
      LET found == sess[s].result.conflicts
      IN \A a, b \in 1..Len(found) :
           (found[a].subject = found[b].subject
              /\ found[a].kind = found[b].kind) => a = b

\* ------------------------------------------- the credential store's claims
\* C15: an authorization-code exchange or a refresh that ends in a transport
\* failure or a timeout leaves the tokens table as it was, and loading the
\* credential afterwards gives the record it gave before.
C15_FailedTokenCallLeavesStore ==
  [][\A s \in Sessions :
       (sess[s].pc \in TokenCallPcs
          /\ sess'[s].result.kind \in {"exchange_exception", "refresh_exception"})
         => /\ tokens' = tokens
            /\ get_token_from_db(tokens') = get_token_from_db(tokens)
            /\ get_refresh_token(tokens') = get_refresh_token(tokens)
            /\ sess'[s].pc = "idle"
  ]_vars

C15_Witness ==
  \E s \in Sessions :
    /\ sess[s].result.kind = "refresh_exception"
    /\ sess[s].pc = "idle"
    /\ get_token_from_db(tokens).refresh_token # None
    /\ get_token_from_db(tokens).token_expiry <= now

\* C16: every save adds one complete row and replaces none; after it,
\* loading the credential gives that row and no other: a new access token,
\* its own expiry, and the refresh token saved with it (the grant's new one,
\* the one the refresh was made with, or none); with no save there is no
\* record.
C16_LastSavedRecordIsActive ==
  [][/\ (get_token_from_db(tokens') = NoRow) <=> (tokens' = <<>>)
     /\ tokens' # tokens
          => LET row == get_token_from_db(tokens')
                 saved == tokens'[Len(tokens')]
             IN /\ Len(tokens') = Len(tokens) + 1
                /\ SubSeq(tokens', 1, Len(tokens)) = tokens
                /\ row = [access_token |-> saved.access_token,
                          refresh_token |-> saved.refresh_token,
                          token_expiry |-> saved.token_expiry.text]
                /\ \A i \in 1..Len(tokens) :
                     tokens[i].access_token # row.access_token
                /\ row.token_expiry \in {now + d : d \in ExpiresIn}
                /\ get_refresh_token(tokens') = row.refresh_token
                /\ \E s \in Sessions :
                     /\ sess'[s] # sess[s]
                     /\ sess[s].pc \in TokenCallPcs
                     /\ sess[s].pc = "exchange"
                          => row.refresh_token \in {None, row.access_token}
                     /\ sess[s].pc # "exchange"
                          => /\ row.refresh_token
                                  \in {None, sess[s].rt, row.access_token}
                             /\ sess'[s].token = row.access_token
  ]_vars

C16_Witness ==
  \E s, t \in Sessions :
    /\ s # t
    /\ Len(tokens) = 2
    /\ sess[s].pc = "get1"
    /\ sess[s].token = tokens[1].access_token
    /\ sess[t].pc = "get2"
    /\ sess[t].token = get_token_from_db(tokens).access_token
    /\ sess[t].token # sess[s].token

\* C21: the row a successful refresh saves holds a refresh token: the new
\* one when the answer carries one, otherwise the one the grant was made
\* with.
C21_RefreshKeepsRefreshToken ==
  [][\A s \in Sessions :
       (sess[s].pc \in {"gvt_refresh", "r401_refresh"}
          /\ sess'[s] # sess[s]
          /\ Len(tokens') > Len(tokens))
         => LET row == get_token_from_db(tokens')
            IN /\ row.refresh_token # None
               /\ row.refresh_token \in {row.access_token, sess[s].rt}
  ]_vars

====
